---- MODULE Spec2Model ----
(***************************************************************************)
(* Model of monitor_cpu_freq.py: the CPU frequency monitor.                *)
(*                                                                         *)
(* One process.  main() counts the cpuN entries of /sys/devices/system/cpu,*)
(* validates an optional --core selection and runs monitor_all_cores or    *)
(* monitor_single_core, each an endless sampling loop inside               *)
(*     try: with open(csv) as csvfile: ... except KeyboardInterrupt: ...   *)
(*                                                                         *)
(* File names, directory entries and sensor contents are sequences of      *)
(* one-character strings, so that startswith, isdigit, strip, int and the  *)
(* f-string formatting of a core id are computed, not assumed.             *)
(* Frequencies are exact rationals [num, den] in lowest terms (Python      *)
(* floats carry the same values up to rounding).                           *)
(* The output file is a buffered text file: rows written by csv.writer sit *)
(* in `buf` until flush() or close() moves them to `disk`.                 *)
(***************************************************************************)
EXTENDS Integers, Sequences, FiniteSets, TLC

\* ---------------------------------------------------------------- bounds
MaxTicks == 2        \* iterations of the sampling loop that are explored
MaxCoreId == 1       \* cpu0 .. cpu<MaxCoreId> may exist

\* ------------------------------------------------------- program constants
kHzPerMHz == 1000    \* int(...) / 1000
SleepSeconds == 1    \* time.sleep(1)

\* ------------------------------------------------------------- characters
Digits == <<"0", "1", "2", "3", "4", "5", "6", "7", "8", "9">>

DigitSet == {Digits[k] : k \in 1..10}

DigitVal(c) == (CHOOSE k \in 1..10 : Digits[k] = c) - 1

Whitespace == {" ", "\n", "\t"}

\* str.isdigit(): non-empty and every character a digit
isdigit(s) == Len(s) > 0 /\ \A k \in 1..Len(s) : s[k] \in DigitSet

\* str.startswith(p)
startswith(s, p) == Len(s) >= Len(p) /\ SubSeq(s, 1, Len(p)) = p

\* s[3:]
slice3(s) == SubSeq(s, 4, Len(s))

RECURSIVE lstrip(_)
lstrip(s) == IF Len(s) > 0 /\ s[1] \in Whitespace THEN lstrip(Tail(s)) ELSE s

RECURSIVE rstrip(_)
rstrip(s) ==
    IF Len(s) > 0 /\ s[Len(s)] \in Whitespace
    THEN rstrip(SubSeq(s, 1, Len(s) - 1))
    ELSE s

\* str.strip()
strip(s) == rstrip(lstrip(s))

\* int(s) raises ValueError unless s is a decimal numeral
int_ok(s) == isdigit(s)

RECURSIVE int_val(_)
int_val(s) ==
    IF Len(s) = 0 THEN 0
    ELSE 10 * int_val(SubSeq(s, 1, Len(s) - 1)) + DigitVal(s[Len(s)])

\* str(n), as the f-strings format a core id
RECURSIVE str(_)
str(n) ==
    IF n < 0 THEN <<"-">> \o str(-n)
    ELSE IF n < 10 THEN <<Digits[n + 1]>>
    ELSE str(n \div 10) \o <<Digits[(n % 10) + 1]>>

cpu == <<"c", "p", "u">>

\* the directory entry f"cpu{core_id}" of the sensor path
cpu_dir(core_id) == cpu \o str(core_id)

\* range(n) as the sequence 0, 1, ..., n-1
range(n) == [k \in 1..n |-> k - 1]

\* -------------------------------------------------------------- rationals
RECURSIVE GCD(_, _)
GCD(a, b) == IF b = 0 THEN a ELSE GCD(b, a % b)

Frac(n, d) == LET g == GCD(n, d) IN [num |-> n \div g, den |-> d \div g]

Zero == [num |-> 0, den |-> 1]

FracAdd(a, b) == Frac(a.num * b.den + b.num * a.den, a.den * b.den)

RECURSIVE FracSum(_)
FracSum(xs) == IF Len(xs) = 0 THEN Zero ELSE FracAdd(xs[1], FracSum(Tail(xs)))

\* a mean that leaves the zero readings out
mean_nonzero(xs) ==
    LET nz == SelectSeq(xs, LAMBDA x : x.num # 0)
    IN  IF Len(nz) = 0 THEN Zero
        ELSE LET s == FracSum(nz) IN Frac(s.num, s.den * Len(nz))

\* statistics.mean(data), data non-empty
mean(xs) == LET s == FracSum(xs) IN Frac(s.num, s.den * Len(xs))

\* ------------------------------------------------------------ environment
\* entries of /sys/devices/system/cpu that are not cores
OtherEntries ==
    { <<"c", "p", "u", "f", "r", "e", "q">>,
      <<"c", "p", "u">>,
      <<"o", "n", "l", "i", "n", "e">> }

CoreIds == 0..MaxCoreId

CoreEntries == {cpu_dir(n) : n \in CoreIds}

\* what a read of scaling_cur_freq may return
SensorContents ==
    { <<"1", "3", "6", "2", "5", "0", "0", "\n">>,
      <<"<", "u", "n", "k", "n", "o", "w", "n", ">", "\n">> }

\* command lines: no --core, or --core k
ArgSet ==
    {[has_core |-> FALSE, core |-> 0]}
        \cup {[has_core |-> TRUE, core |-> k] : k \in -1..(MaxCoreId + 1)}

\* -------------------------------------------------------------- CSV cells
Label(s, n) == [kind |-> s, num |-> n, den |-> 1]

TimeCell(t) == [kind |-> "time", num |-> t, den |-> 1]

NumCell(f) == [kind |-> "num", num |-> f.num, den |-> f.den]

CellFrac(c) == [num |-> c.num, den |-> c.den]

VARIABLES
    dirEntries,     \* current listing of /sys/devices/system/cpu
    args,           \* parsed command line
    pc,             \* position of the process
    mode,           \* "none", "all" or "single"
    core_count,     \* main's core_count
    core_id,        \* monitor_single_core's core_id
    csv_filename,   \* name of the output file
    file,           \* "absent", "open" or "closed"
    headers,        \* the header row
    buf,            \* rows written but not yet flushed
    disk,           \* rows flushed to the file
    now,            \* wall clock, in seconds
    timestamp,      \* the tick's timestamp
    frequencies,    \* the tick's readings so far
    avg_freq,       \* the tick's mean
    console,        \* lines printed
    exit_status,    \* -1 while running
    trace,          \* clock and sensor accesses of the tick in flight
    cores_read,     \* core ids whose sensor was ever opened
    sensor_reads,   \* number of calls of read_cpu_freq
    frequency,      \* monitor_single_core's reading of the tick
    ticks_done,     \* iterations that ran to the end of their sleep
    rows_written,   \* calls of writer.writerow for a data row
    interrupted_at, \* pc at which KeyboardInterrupt arrived, or "no"
    start_entries,  \* the listing os.listdir returned to get_core_count
    listdir_calls   \* number of calls of get_core_count

vars ==
    << dirEntries, args, pc, mode, core_count, core_id, csv_filename,
       file, headers, buf, disk, now, timestamp, frequencies, avg_freq, console,
       exit_status, trace, cores_read, sensor_reads, frequency, ticks_done,
       rows_written, interrupted_at, start_entries, listdir_calls >>

envVars == << dirEntries, args >>

fileVars == << file, headers, buf, disk >>

tickVars == << timestamp, frequencies, frequency, avg_freq, trace >>

countVars == << cores_read, sensor_reads, ticks_done, rows_written >>

procVars == << mode, core_count, core_id, csv_filename >>

startVars == << start_entries, listdir_calls >>

\* ------------------------------------------------------------ get_core_count
\* a count taken from the largest core number instead of the number of entries
get_core_count_max(entries) ==
    LET ids == {n \in 0..(MaxCoreId + 1) : cpu_dir(n) \in entries}
    IN  IF ids = {} THEN 0 ELSE (CHOOSE m \in ids : \A n \in ids : n <= m) + 1

get_core_count(entries) ==
    Cardinality({f \in entries : startswith(f, cpu) /\ isdigit(slice3(f))})

\* ------------------------------------------------------------- read_cpu_freq
\* The outcomes of one call, given the directory listing:
\*   kind "value": the function returns val; why tells how: "read" (the file
\*     was read and parsed), "FileNotFoundError" or "IOError" (caught, 0);
\*   kind "ValueError": int() raises; the except clause names only IOError
\*     and FileNotFoundError, so the exception leaves the function.
read_cpu_freq(id, entries) ==
    IF cpu_dir(id) \notin entries
    THEN {[kind |-> "value", val |-> Zero, why |-> "FileNotFoundError"]}
    ELSE {[kind |-> "value", val |-> Zero, why |-> "IOError"]}
         \cup { IF int_ok(strip(c))
                THEN [kind |-> "value",
                      val |-> Frac(int_val(strip(c)), kHzPerMHz),
                      why |-> "read"]
                ELSE [kind |-> "ValueError", val |-> Zero, why |-> "ValueError"]
                : c \in SensorContents }

\* ------------------------------------------------------------------ values
NoFile == [prefix |-> "", core |-> 0, ts |-> 0]

Line(m, n, d, f) == [msg |-> m, n |-> n, d |-> d, name |-> f]

NowEvent(t) == [ev |-> "now", core |-> -1, val |-> Frac(t, 1), why |-> "clock"]

ReadEvent(id, r) == [ev |-> "read", core |-> id, val |-> r.val, why |-> r.why]

Init ==
    /\ dirEntries \in {OtherEntries \cup S : S \in SUBSET CoreEntries}
    /\ args \in ArgSet
    /\ pc = "start"
    /\ mode = "none"
    /\ core_count = 0
    /\ core_id = 0
    /\ csv_filename = NoFile
    /\ file = "absent"
    /\ headers = <<>>
    /\ buf = <<>>
    /\ disk = <<>>
    /\ now = 0
    /\ timestamp = 0
    /\ frequencies = <<>>
    /\ frequency = Zero
    /\ avg_freq = Zero
    /\ console = <<>>
    /\ exit_status = -1
    /\ trace = <<>>
    /\ cores_read = {}
    /\ sensor_reads = 0
    /\ ticks_done = 0
    /\ rows_written = 0
    /\ interrupted_at = "no"
    /\ start_entries = {}
    /\ listdir_calls = 0

\* ------------------------------------------------------------ the file object
\* a close that drops what is still buffered
close_dropping(d, b) == d

\* csvfile.close() on leaving the with block: the buffer is written out
close(d, b) == d \o b

\* a flush that writes nothing
flush_nothing(d, b) == d

\* csvfile.flush()
flush(d, b) == d \o b

\* -------------------------------------------------------------------- main
\* a range check without the lower bound
ValidCore_no_lower(core, count) == core < count

\* 0 <= args.core < core_count
ValidCore(core, count) == 0 <= core /\ core < count

main ==
    /\ pc = "start"
    /\ core_count' = get_core_count(dirEntries)
    /\ start_entries' = dirEntries
    /\ listdir_calls' = listdir_calls + 1
    /\ IF args.has_core
       THEN IF ValidCore(args.core, core_count')
            THEN /\ pc' = "s_enter"
                 /\ console' = <<Line("Detected", core_count', 1, NoFile)>>
                 /\ exit_status' = exit_status
            ELSE /\ pc' = "exited"
                 /\ console' = << Line("Detected", core_count', 1, NoFile),
                                  Line("Error: Invalid core ID", args.core,
                                       core_count' - 1, NoFile) >>
                 /\ exit_status' = 1
       ELSE /\ pc' = "a_enter"
            /\ console' = <<Line("Detected", core_count', 1, NoFile)>>
            /\ exit_status' = exit_status
    /\ UNCHANGED << envVars, fileVars, tickVars, countVars, mode, core_id,
                    csv_filename, now, interrupted_at >>

\* ---------------------------------------------------------- monitor_all_cores
all_enter ==
    /\ pc = "a_enter"
    /\ mode' = "all"
    /\ csv_filename' = [prefix |-> "cpu_frequencies", core |-> 0, ts |-> now]
    /\ console' = console \o
          << Line("Recording all", core_count, 1, csv_filename'),
             Line("Press Ctrl+C", 0, 1, NoFile) >>
    /\ pc' = "a_open"
    /\ UNCHANGED startVars
    /\ UNCHANGED << envVars, fileVars, tickVars, countVars, core_count, core_id,
                    now, exit_status, interrupted_at >>

all_open ==
    /\ pc = "a_open"
    /\ file' = "open"
    /\ disk' = <<>>
    /\ buf' = <<>>
    /\ pc' = "a_header"
    /\ UNCHANGED startVars
    /\ UNCHANGED << envVars, procVars, tickVars, countVars, headers, now,
                    console, exit_status, interrupted_at >>

\* headers that leave the Average column out when there is no core
all_headers_degenerate(count) ==
    IF count = 0 THEN <<Label("Timestamp", 0)>>
    ELSE <<Label("Timestamp", 0)>>
            \o [k \in 1..count |-> Label("CPU", range(count)[k])]
            \o <<Label("Average", 0)>>

\* ['Timestamp'] + [f'CPU{i}' for i in range(core_count)] + ['Average']
all_headers(count) ==
    <<Label("Timestamp", 0)>>
        \o [k \in 1..count |-> Label("CPU", range(count)[k])]
        \o <<Label("Average", 0)>>

all_header ==
    /\ pc = "a_header"
    /\ headers' = all_headers(core_count)
    /\ buf' = Append(buf, headers')
    /\ pc' = "a_ts"
    /\ UNCHANGED startVars
    /\ UNCHANGED << envVars, procVars, tickVars, countVars, file, disk, now,
                    console, exit_status, interrupted_at >>

all_timestamp ==
    /\ pc = "a_ts"
    /\ ticks_done < MaxTicks
    /\ timestamp' = now
    /\ trace' = <<NowEvent(now)>>
    /\ frequencies' = <<>>
    /\ pc' = "a_read"
    /\ UNCHANGED startVars
    /\ UNCHANGED << envVars, procVars, fileVars, countVars, frequency, avg_freq,
                    now, console, exit_status, interrupted_at >>

\* the core read at position k (from 1) of the comprehension, going downwards
core_at_reversed(k, count) == count - k

\* the core read at position k (from 1) of [... for i in range(core_count)]
core_at(k, count) == range(count)[k]

\* one element of [read_cpu_freq(i) for i in range(core_count)]
all_read ==
    /\ pc = "a_read"
    /\ Len(frequencies) < core_count
    /\ LET id == core_at(Len(frequencies) + 1, core_count)
       IN  \E r \in read_cpu_freq(id, dirEntries) :
             /\ trace' = Append(trace, ReadEvent(id, r))
             /\ cores_read' = cores_read \cup {id}
             /\ sensor_reads' = sensor_reads + 1
             /\ \/ /\ r.kind = "value"
                   /\ frequencies' = Append(frequencies, r.val)
                   /\ pc' = "a_read"
                   /\ UNCHANGED << fileVars, console, exit_status >>
                \* ValueError leaves the with block (the file is closed) and
                \* the try block (no handler matches): the process dies
                \/ /\ r.kind = "ValueError"
                   /\ frequencies' = frequencies
                   /\ disk' = close(disk, buf)
                   /\ buf' = <<>>
                   /\ file' = "closed"
                   /\ console' = Append(console, Line("Traceback: ValueError", id, 1, NoFile))
                   /\ exit_status' = 1
                   /\ pc' = "crashed"
                   /\ UNCHANGED headers
    /\ UNCHANGED startVars
    /\ UNCHANGED << envVars, procVars, timestamp, frequency, avg_freq,
                    ticks_done, rows_written, now, interrupted_at >>

\* avg_freq = mean(frequencies) if frequencies else 0
all_mean ==
    /\ pc = "a_read"
    /\ Len(frequencies) = core_count
    /\ avg_freq' = IF Len(frequencies) > 0 THEN mean(frequencies) ELSE Zero
    /\ pc' = "a_write"
    /\ UNCHANGED startVars
    /\ UNCHANGED << envVars, procVars, fileVars, countVars, timestamp,
                    frequencies, frequency, trace, now, console, exit_status,
                    interrupted_at >>

\* row = [timestamp] + frequencies + [avg_freq]
all_row(ts, freqs, avg) ==
    <<TimeCell(ts)>> \o [k \in 1..Len(freqs) |-> NumCell(freqs[k])] \o <<NumCell(avg)>>

all_write ==
    /\ pc = "a_write"
    /\ buf' = Append(buf, all_row(timestamp, frequencies, avg_freq))
    /\ rows_written' = rows_written + 1
    /\ pc' = "a_flush"
    /\ UNCHANGED startVars
    /\ UNCHANGED << envVars, procVars, tickVars, file, headers, disk,
                    cores_read, sensor_reads, ticks_done, now, console,
                    exit_status, interrupted_at >>

\* the loop without its flush: the row stays in the buffer
all_flush_skipped ==
    /\ pc = "a_flush"
    /\ pc' = "a_print"
    /\ UNCHANGED << envVars, procVars, tickVars, countVars, fileVars, now,
                    console, exit_status, interrupted_at, startVars >>

all_flush ==
    /\ pc = "a_flush"
    /\ disk' = flush(disk, buf)
    /\ buf' = <<>>
    /\ pc' = "a_print"
    /\ UNCHANGED startVars
    /\ UNCHANGED << envVars, procVars, tickVars, countVars, file, headers, now,
                    console, exit_status, interrupted_at >>

all_print ==
    /\ pc = "a_print"
    /\ console' = Append(console, Line("Avg", avg_freq.num, avg_freq.den, NoFile))
    /\ pc' = "a_sleep"
    /\ UNCHANGED startVars
    /\ UNCHANGED << envVars, procVars, fileVars, tickVars, countVars, now,
                    exit_status, interrupted_at >>

all_sleep ==
    /\ pc = "a_sleep"
    /\ now' = now + SleepSeconds
    /\ ticks_done' = ticks_done + 1
    /\ pc' = "a_ts"
    /\ UNCHANGED startVars
    /\ UNCHANGED << envVars, procVars, fileVars, tickVars, cores_read,
                    sensor_reads, rows_written, console, exit_status,
                    interrupted_at >>

AllTryPcs ==
    {"a_open", "a_header", "a_ts", "a_read", "a_write", "a_flush", "a_print", "a_sleep"}

AllLoopPcs == AllTryPcs \ {"a_open", "a_header"}

\* KeyboardInterrupt raised inside the try block.  An interrupt that arrives
\* during flush() finds the buffer written out or not.
all_KeyboardInterrupt ==
    /\ pc \in AllTryPcs
    /\ interrupted_at' = pc
    /\ pc' = IF file = "open" THEN "a_exit" ELSE "a_except"
    /\ \/ UNCHANGED << disk, buf >>
       \/ /\ pc = "a_flush"
          /\ disk' = flush(disk, buf)
          /\ buf' = <<>>
    /\ UNCHANGED startVars
    /\ UNCHANGED << envVars, procVars, tickVars, countVars, file, headers, now,
                    console, exit_status >>

\* the with block is left: csvfile is closed
all_exit ==
    /\ pc = "a_exit"
    /\ disk' = close(disk, buf)
    /\ buf' = <<>>
    /\ file' = "closed"
    /\ pc' = "a_except"
    /\ UNCHANGED startVars
    /\ UNCHANGED << envVars, procVars, tickVars, countVars, headers, now,
                    console, exit_status, interrupted_at >>

\* a handler that prints the stop notice only
StopLines_no_path(name) == <<Line("Stopping frequency monitoring", 0, 1, NoFile)>>

\* the two lines of the handler
StopLines(name) ==
    << Line("Stopping frequency monitoring", 0, 1, NoFile),
       Line("Data saved to", 0, 1, name) >>

\* except KeyboardInterrupt: ..., then monitor_all_cores and main return
all_except ==
    /\ pc = "a_except"
    /\ console' = console \o StopLines(csv_filename)
    /\ exit_status' = 0
    /\ pc' = "done"
    /\ UNCHANGED startVars
    /\ UNCHANGED << envVars, procVars, fileVars, tickVars, countVars, now,
                    interrupted_at >>

\* -------------------------------------------------------- monitor_single_core
single_enter ==
    /\ pc = "s_enter"
    /\ mode' = "single"
    /\ core_id' = args.core
    /\ csv_filename' = [prefix |-> "cpu_frequency", core |-> core_id', ts |-> now]
    /\ console' = console \o
          << Line("Recording core", core_id', 1, csv_filename'),
             Line("Press Ctrl+C", 0, 1, NoFile) >>
    /\ pc' = "s_open"
    /\ UNCHANGED startVars
    /\ UNCHANGED << envVars, fileVars, tickVars, countVars, core_count, now,
                    exit_status, interrupted_at >>

single_open ==
    /\ pc = "s_open"
    /\ file' = "open"
    /\ disk' = <<>>
    /\ buf' = <<>>
    /\ pc' = "s_header"
    /\ UNCHANGED startVars
    /\ UNCHANGED << envVars, procVars, tickVars, countVars, headers, now,
                    console, exit_status, interrupted_at >>

\* headers with a mean column
single_headers_average(id) ==
    <<Label("Timestamp", 0), Label("CPU", id), Label("Average", 0)>>

\* ['Timestamp', f'CPU{core_id}']
single_headers(id) == <<Label("Timestamp", 0), Label("CPU", id)>>

single_header ==
    /\ pc = "s_header"
    /\ headers' = single_headers(core_id)
    /\ buf' = Append(buf, headers')
    /\ pc' = "s_ts"
    /\ UNCHANGED startVars
    /\ UNCHANGED << envVars, procVars, tickVars, countVars, file, disk, now,
                    console, exit_status, interrupted_at >>

single_timestamp ==
    /\ pc = "s_ts"
    /\ ticks_done < MaxTicks
    /\ timestamp' = now
    /\ trace' = <<NowEvent(now)>>
    /\ pc' = "s_read"
    /\ UNCHANGED startVars
    /\ UNCHANGED << envVars, procVars, fileVars, countVars, frequencies,
                    frequency, avg_freq, now, console, exit_status,
                    interrupted_at >>

\* frequency = read_cpu_freq(core_id)
single_read ==
    /\ pc = "s_read"
    /\ \E r \in read_cpu_freq(core_id, dirEntries) :
          /\ trace' = Append(trace, ReadEvent(core_id, r))
          /\ cores_read' = cores_read \cup {core_id}
          /\ sensor_reads' = sensor_reads + 1
          /\ \/ /\ r.kind = "value"
                /\ frequency' = r.val
                /\ pc' = "s_write"
                /\ UNCHANGED << fileVars, console, exit_status >>
             \/ /\ r.kind = "ValueError"
                /\ frequency' = frequency
                /\ disk' = close(disk, buf)
                /\ buf' = <<>>
                /\ file' = "closed"
                /\ console' = Append(console,
                                     Line("Traceback: ValueError", core_id, 1, NoFile))
                /\ exit_status' = 1
                /\ pc' = "crashed"
                /\ UNCHANGED headers
    /\ UNCHANGED startVars
    /\ UNCHANGED << envVars, procVars, timestamp, frequencies, avg_freq,
                    ticks_done, rows_written, now, interrupted_at >>

\* row = [timestamp, frequency]
single_row(ts, freq) == <<TimeCell(ts), NumCell(freq)>>

single_write ==
    /\ pc = "s_write"
    /\ buf' = Append(buf, single_row(timestamp, frequency))
    /\ rows_written' = rows_written + 1
    /\ pc' = "s_flush"
    /\ UNCHANGED startVars
    /\ UNCHANGED << envVars, procVars, tickVars, file, headers, disk,
                    cores_read, sensor_reads, ticks_done, now, console,
                    exit_status, interrupted_at >>

single_flush ==
    /\ pc = "s_flush"
    /\ disk' = flush(disk, buf)
    /\ buf' = <<>>
    /\ pc' = "s_print"
    /\ UNCHANGED startVars
    /\ UNCHANGED << envVars, procVars, tickVars, countVars, file, headers, now,
                    console, exit_status, interrupted_at >>

single_print ==
    /\ pc = "s_print"
    /\ console' = Append(console, Line("CPU", frequency.num, frequency.den, NoFile))
    /\ pc' = "s_sleep"
    /\ UNCHANGED startVars
    /\ UNCHANGED << envVars, procVars, fileVars, tickVars, countVars, now,
                    exit_status, interrupted_at >>

single_sleep ==
    /\ pc = "s_sleep"
    /\ now' = now + SleepSeconds
    /\ ticks_done' = ticks_done + 1
    /\ pc' = "s_ts"
    /\ UNCHANGED startVars
    /\ UNCHANGED << envVars, procVars, fileVars, tickVars, cores_read,
                    sensor_reads, rows_written, console, exit_status,
                    interrupted_at >>

SingleTryPcs ==
    {"s_open", "s_header", "s_ts", "s_read", "s_write", "s_flush", "s_print", "s_sleep"}

SingleLoopPcs == SingleTryPcs \ {"s_open", "s_header"}

single_KeyboardInterrupt ==
    /\ pc \in SingleTryPcs
    /\ interrupted_at' = pc
    /\ pc' = IF file = "open" THEN "s_exit" ELSE "s_except"
    /\ \/ UNCHANGED << disk, buf >>
       \/ /\ pc = "s_flush"
          /\ disk' = flush(disk, buf)
          /\ buf' = <<>>
    /\ UNCHANGED startVars
    /\ UNCHANGED << envVars, procVars, tickVars, countVars, file, headers, now,
                    console, exit_status >>

single_exit ==
    /\ pc = "s_exit"
    /\ disk' = close(disk, buf)
    /\ buf' = <<>>
    /\ file' = "closed"
    /\ pc' = "s_except"
    /\ UNCHANGED startVars
    /\ UNCHANGED << envVars, procVars, tickVars, countVars, headers, now,
                    console, exit_status, interrupted_at >>

single_except ==
    /\ pc = "s_except"
    /\ console' = console \o StopLines(csv_filename)
    /\ exit_status' = 0
    /\ pc' = "done"
    /\ UNCHANGED startVars
    /\ UNCHANGED << envVars, procVars, fileVars, tickVars, countVars, now,
                    interrupted_at >>

\* --------------------------------------------------------------- environment
\* A core directory appears or disappears while the monitor runs.  Every core
\* is read at most once per tick, so a change during a tick shows to the
\* program as the same change before or after that tick: changes are taken
\* at the top of the loop.
Hotplug ==
    /\ pc \in {"a_ts", "s_ts"}
    /\ ticks_done < MaxTicks
    /\ \E e \in CoreEntries :
          dirEntries' = IF e \in dirEntries THEN dirEntries \ {e}
                        ELSE dirEntries \cup {e}
    /\ UNCHANGED startVars
    /\ UNCHANGED << args, procVars, fileVars, tickVars, countVars, pc, now,
                    console, exit_status, interrupted_at >>

LoopPcs == AllLoopPcs \cup SingleLoopPcs

Next ==
    \/ main
    \/ all_enter
    \/ all_open
    \/ all_header
    \/ all_timestamp
    \/ all_read
    \/ all_mean
    \/ all_write
    \/ all_flush
    \/ all_print
    \/ all_sleep
    \/ all_KeyboardInterrupt
    \/ all_exit
    \/ all_except
    \/ single_enter
    \/ single_open
    \/ single_header
    \/ single_timestamp
    \/ single_read
    \/ single_write
    \/ single_flush
    \/ single_print
    \/ single_sleep
    \/ single_KeyboardInterrupt
    \/ single_exit
    \/ single_except
    \/ Hotplug

Spec == Init /\ [][Next]_vars

\* Once KeyboardInterrupt is raised the interpreter runs the with block's exit
\* and the handler to their end: nothing in them waits.
FairSpec ==
    /\ Spec
    /\ WF_vars(all_exit) /\ WF_vars(all_except)
    /\ WF_vars(single_exit) /\ WF_vars(single_except)

\* ===================================================================== claims
\* every row that csv.writer has been given, flushed or not
Written == disk \o buf

\* the data rows among them
DataRowsOf(rows) == IF Len(rows) = 0 THEN <<>> ELSE Tail(rows)

\* the value cells of an all-core row, as rationals
ValuesOf(row) == [k \in 1..(Len(row) - 2) |-> CellFrac(row[k + 1])]

MHz(khz) == Frac(khz, kHzPerMHz)

\* position of the tick in flight at which the row has been handed to the writer
AfterWrite == {"a_flush", "a_print", "a_sleep", "s_flush", "s_print", "s_sleep"}

\* -------------------------------------------------------------------- C1
\* C1 as stated: in all-core mode the header has C+2 columns when C > 0 and
\* one column (Timestamp only) when C = 0, and every data row has as many
\* fields as the header.
C1_AsStated ==
    (mode = "all" /\ headers # <<>>) =>
        /\ Len(headers) = (IF core_count > 0 THEN core_count + 2 ELSE 1)
        /\ \A k \in 1..Len(Written) : Len(Written[k]) = Len(headers)

\* C1, amended: in all-core mode the header is Timestamp, CPU0..CPU{C-1},
\* Average, which is C+2 columns for every C >= 0 (2 columns when C = 0), and
\* every data row has as many fields as the header.
C1_HeaderWidth ==
    (mode = "all" /\ headers # <<>>) =>
        /\ Len(headers) = core_count + 2
        /\ headers[1].kind = "Timestamp"
        /\ \A i \in 0..(core_count - 1) : headers[i + 2] = Label("CPU", i)
        /\ headers[core_count + 2].kind = "Average"
        /\ Written[1] = headers
        /\ \A k \in 1..Len(Written) : Len(Written[k]) = Len(headers)

C1_Witness == mode = "all" /\ core_count = 0 /\ Len(disk) = 3

\* -------------------------------------------------------------------- C2
\* C2: whatever makes a sensor read fail (the unreadable contents included),
\* read_cpu_freq returns 0, the loop is not aborted and the process does not
\* die of the failure.
C2_ReadFailureNeverAborts ==
    /\ pc # "crashed"
    /\ \A k \in 1..Len(trace) :
          (trace[k].ev = "read" /\ trace[k].why # "read") => trace[k].val = Zero

\* -------------------------------------------------------------------- C3
\* C3 as stated: the loop interrupted anywhere in an iteration, after N
\* iterations have completed, leaves exactly the header and N complete rows.
C3_AsStated ==
    (pc = "done" /\ interrupted_at \in LoopPcs) =>
        /\ Len(disk) = 1 + ticks_done
        /\ disk[1] = headers
        /\ \A k \in 1..Len(disk) : Len(disk[k]) = Len(headers)

\* C3, amended: after shutdown the file holds the header and one complete
\* row for every tick whose writerow had run when the interrupt arrived:
\* N rows when it arrives at the timestamp, the reads or before the row
\* write of iteration N+1, and N+1 rows when it arrives at the flush, the
\* console print or the sleep of that iteration.  No row is partial, none
\* written is missing and nothing stays buffered.
C3_RowsAfterInterrupt ==
    (pc = "done" /\ interrupted_at \in LoopPcs) =>
        /\ file = "closed"
        /\ buf = <<>>
        /\ Len(disk) = 1 + rows_written
        /\ disk[1] = headers
        /\ rows_written = ticks_done + (IF interrupted_at \in AfterWrite THEN 1 ELSE 0)
        /\ \A k \in 1..Len(disk) : Len(disk[k]) = Len(headers)

C3_Witness ==
    /\ pc = "done"
    /\ interrupted_at = "a_sleep"
    /\ ticks_done = 1
    /\ Len(disk) = 3

\* -------------------------------------------------------------------- C4
\* C4: a --core k outside [0, core_count) is reported, the process exits
\* with status 1, the sampling loop is never entered and no file is created.
C4_InvalidCoreRejected ==
    (pc # "start" /\ args.has_core /\ ~(0 <= args.core /\ args.core < core_count)) =>
        /\ pc = "exited"
        /\ exit_status = 1
        /\ mode = "none"
        /\ file = "absent"
        /\ Written = <<>>
        /\ sensor_reads = 0
        /\ console[Len(console)] =
              Line("Error: Invalid core ID", args.core, core_count - 1, NoFile)

C4_Witness == pc = "exited" /\ args.core = -1 /\ core_count > 0

\* -------------------------------------------------------------------- C5
\* the Average cell of an all-core row is the sum of its value cells over
\* their number, and 0 when there is none
RowMeanOK(row) ==
    LET n == Len(row) - 2
        total == FracSum(ValuesOf(row))
        avg == row[Len(row)]
    IN  IF n = 0 THEN CellFrac(avg) = Zero
        ELSE avg.num * total.den * n = total.num * avg.den

\* C5: in all-core mode the Average of every row is the arithmetic mean of
\* that row's own values, a failed read counting as 0, and 0 when there is
\* no core; [1200,1300,0,1500] gives 1000 and [1250,1300,1350,1550] gives
\* 1362.5.
C5_RowMean ==
    /\ mode = "all" => \A k \in 1..Len(DataRowsOf(Written)) :
                          RowMeanOK(DataRowsOf(Written)[k])
    /\ mean(<<MHz(1200000), MHz(1300000), Zero, MHz(1500000)>>) = Frac(1000, 1)
    /\ mean(<<MHz(1250000), MHz(1300000), MHz(1350000), MHz(1550000)>>) = Frac(2725, 2)

C5_Witness ==
    /\ mode = "all"
    /\ Len(disk) = 3
    /\ \E i, j \in 2..(Len(disk[3]) - 1) :
          disk[3][i].num = 0 /\ disk[3][j].num # 0
    /\ disk[2] # disk[3]

\* -------------------------------------------------------------------- C6
\* C6: in single-core mode with a valid k the header is Timestamp, CPUk,
\* every data row is the timestamp and the reading of core k, no mean is
\* computed and no other core is read.
C6_SingleCore ==
    mode = "single" =>
        /\ 0 <= core_id /\ core_id < core_count
        /\ headers # <<>> =>
              /\ headers = <<Label("Timestamp", 0), Label("CPU", core_id)>>
              /\ Len(headers) = 2
              /\ Written[1] = headers
        /\ \A k \in 1..Len(DataRowsOf(Written)) :
              /\ Len(DataRowsOf(Written)[k]) = 2
              /\ DataRowsOf(Written)[k][1].kind = "time"
              /\ DataRowsOf(Written)[k][2].kind = "num"
        /\ pc \in {"s_flush"} =>
              /\ Len(trace) = 2
              /\ trace[2].core = core_id
              /\ buf[Len(buf)] = <<TimeCell(timestamp), NumCell(trace[2].val)>>
        /\ avg_freq = Zero /\ frequencies = <<>>
        /\ cores_read \subseteq {core_id}

C6_Witness == mode = "single" /\ core_id = 1 /\ Len(disk) = 3 /\ disk[3][2].num # 0

\* -------------------------------------------------------------------- C7
Shutdown ==
    /\ pc = "done"
    /\ file = "closed"
    /\ buf = <<>>
    /\ exit_status = 0
    /\ Len(console) >= 2
    /\ console[Len(console) - 1] = Line("Stopping frequency monitoring", 0, 1, NoFile)
    /\ console[Len(console)] = Line("Data saved to", 0, 1, csv_filename)

\* C7: an interruption that arrives while the loop runs leads to shutdown:
\* the file closed, the stop notice and the file's path printed, exit
\* status 0; and from the interruption on no sensor is read.
C7_InterruptLeadsToShutdown ==
    /\ (interrupted_at \in LoopPcs) ~> Shutdown
    /\ [][interrupted_at' # "no" => sensor_reads' = sensor_reads]_vars

C7_Witness == Shutdown /\ interrupted_at \in LoopPcs /\ sensor_reads > 0

\* -------------------------------------------------------------------- C8
\* the first sensor read of a tick is about to begin
FirstReadBegins ==
    \/ pc = "a_read" /\ frequencies = <<>> /\ core_count > 0
    \/ pc = "s_read"

\* the flushed file is the header and the rows of the completed ticks, in
\* tick order
FlushedUpTo(n) ==
    /\ Len(disk) = 1 + n
    /\ disk[1] = headers
    /\ \A k \in 2..Len(disk) :
          /\ Len(disk[k]) = Len(headers)
          /\ disk[k][1].kind = "time"
          /\ disk[k][1].num < timestamp
          /\ k > 2 => disk[k - 1][1].num < disk[k][1].num

TraceInOrder ==
    \A k \in 1..Len(trace) :
        IF k = 1 THEN trace[k].ev = "now"
        ELSE trace[k].ev = "read" /\ trace[k].core = k - 2

\* C9: in every all-core tick the timestamp is taken once, before any read;
\* the reader is then called once for each of 0..core_count-1 in increasing
\* order, a failed read is not repeated, and the row's i-th value is the
\* result of the read of core i.
C9_ReadOrder ==
    mode = "all" =>
        /\ TraceInOrder
        /\ pc = "a_flush" =>
              LET row == buf[Len(buf)]
              IN  /\ Len(trace) = core_count + 1
                  /\ row[1] = TimeCell(trace[1].val.num)
                  /\ \A i \in 0..(core_count - 1) :
                        row[i + 2] = NumCell(trace[i + 2].val)

C9_Witness ==
    /\ pc = "a_flush"
    /\ core_count = 2
    /\ trace[2].why = "IOError"
    /\ trace[3].why = "read"
    /\ ticks_done = 1

\* ------------------------------------------------------------------- C10
\* the cpuN entries of a listing, N a core number
CoresIn(entries) == {n \in 0..(MaxCoreId + 1) : cpu_dir(n) \in entries}

\* C10: the core count is taken once, at startup, as the number of cpuN
\* entries; the identifiers accepted and sampled are exactly 0..C-1 whatever
\* numbers exist: an existing core N >= C is never sampled and is rejected
\* as a selection, an absent identifier below C is sampled and reads 0, and
\* a later change of topology changes neither the header nor the row width.
C10_CountFixesIdentifiers ==
    pc # "start" =>
        /\ listdir_calls = 1
        /\ core_count = Cardinality(CoresIn(start_entries))
        /\ cores_read \subseteq 0..(core_count - 1)
        /\ (args.has_core /\ args.core >= core_count) => pc = "exited"
        /\ (args.has_core /\ args.core \in 0..(core_count - 1)) => pc # "exited"
        /\ pc = "a_flush" => cores_read = 0..(core_count - 1)
        /\ pc \in {"a_read", "a_write", "a_flush", "s_write", "s_flush"} =>
              \A k \in 2..Len(trace) :
                  cpu_dir(trace[k].core) \notin dirEntries => trace[k].val = Zero
        /\ (mode = "all" /\ headers # <<>>) =>
              \A k \in 1..Len(Written) : Len(Written[k]) = core_count + 2

\* cpu1 alone at startup (C = 1): core 0, which does not exist, is the one
\* sampled and reads 0, cpu1 is never read, and the topology has changed since
C10_Witness ==
    /\ mode = "all"
    /\ pc = "a_flush"
    /\ ticks_done = 1
    /\ CoresIn(start_entries) = {1}
    /\ core_count = 1
    /\ CoresIn(dirEntries) = {}
    /\ cores_read = {0}
    /\ trace[2].val = Zero

====
